---- MODULE Spec2Model ----
(***************************************************************************)
(* A model of the discovery service registry (bsladewski/discovery).       *)
(*                                                                         *)
(* Part 1, the registry store: randomRegistry of                           *)
(* src/discovery/randomregistry.go.  Every section of code that runs       *)
(* between r.mutex.Lock() and r.mutex.Unlock() is one atomic action; the   *)
(* code that getAll runs after its Unlock (one r.Remove per stale record)  *)
(* is a sequence of further actions, so that other callers interleave      *)
(* exactly where the mutex lets them.                                      *)
(*                                                                         *)
(* Time is a discrete clock `now'; time.Now() reads it, time.Since(t) is   *)
(* now - t.  One scan of getAll reads the clock at one instant.            *)
(***************************************************************************)
EXTENDS Integers, Sequences, FiniteSets, TLC

\* ----------------------------------------------------------------- bounds
\* The clock runs from 0 to MaxTime.
MaxTime == 3
\* SetTimeout, SetKeep and NewRandomRegistry take a duration in 1..MaxDur.
MaxDur == 2

Durations == 1..MaxDur

\* The service names a caller may ask for: "a" is registered by two replicas,
\* "b" by nobody.  handleDiscover (src/server.go:111) answers 400 to an empty
\* name before it calls Get, so Get is asked for these names only.
ServiceNames == {"a", "b"}
\* List is also asked for "", getAll's wildcard (handleList passes it on).
QueryNames == ServiceNames \cup {""}

\* The (name,host) keys callers register: two replicas of "a".
ServiceKeys ==
    { [Name |-> "a", Host |-> "h1"],
      [Name |-> "a", Host |-> "h2"] }

\* The goroutines inside a Get or List call.  Add, Remove, SetTimeout and
\* SetKeep are one critical section each and keep nothing between steps, so
\* their callers (any number of them) need no identity.
Callers == {"c1"}

\* The zero time.Time a request carries when the client sets no "added".
ZeroTime == 0

VARIABLES
    Services,   \* randomRegistry.Services: sequence of [Name, Host, Added]
    Timeout,    \* randomRegistry.Timeout
    Keep,       \* randomRegistry.Keep
    now,        \* the wall clock
    pc,         \* per caller: "idle", "remove" (inside getAll, after Unlock), "ret"
    call,       \* per caller: the read in progress, [op, name]
    services,   \* per caller: getAll's local `services`
    stale,      \* per caller: getAll's local `stale`, what is left to Remove
    ret,        \* per caller: what Get/List returned, [err, list]
    running,    \* RegistryClient.running
    shutdown,   \* RegistryClient.shutdown: the number of values in the channel
    lpc,        \* per doAuto goroutine: where it is ("none": no such goroutine)
    dpc,        \* per Deregister call: where it is
    drun,       \* per Deregister call: what its IsRunning() returned
    dresp,      \* per Deregister call: how its remote request ended
    derr,       \* per Deregister call: whether it returned an error
    dsaw,       \* history: a doAuto goroutine existed when the call began
    hist,       \* history of the agent's record at the registry
    lerr,       \* per doAuto goroutine: its last Register() returned an error
    reg,        \* the last direct Register() call: [resp, err]
    resp,       \* the server's last response: [handler, code]
    lib,        \* the client library: the client in hand and its last call
    cmd,        \* the discovery-server command: its flags and how it ended
    mutex,      \* randomRegistry.mutex: "free" or the goroutine that holds it
    thr         \* per goroutine calling the registry: its call and where it is

storeVars == <<Services, Timeout, Keep>>
callerVars == <<pc, call, services, stale, ret>>
agentVars == <<running, shutdown, lpc, dpc, drun, dresp, derr, dsaw, hist, lerr, reg>>
lockVars == <<mutex, thr>>
progVars == <<lib, cmd, mutex, thr>>
vars == <<Services, Timeout, Keep, now, pc, call, services, stale, ret,
          running, shutdown, lpc, dpc, drun, dresp, derr, dsaw, hist,
          lerr, reg, resp, lib, cmd, mutex, thr>>

\* ------------------------------------------------------------ data model

\* Service of model.go: Name, Host and the time of the last renewal.
Service(name, host, added) == [Name |-> name, Host |-> host, Added |-> added]

NoCall == [op |-> "none", name |-> ""]
NoRet == [err |-> FALSE, list |-> <<>>]
\* A response of the server: the handler that wrote it and its status.
Response(handler, code) == [handler |-> handler, code |-> code]

\* The server has not answered any request yet.
NoResp == Response("none", 0)

\* time.Since(t)
Since(t) == now - t

\* indexOf: the index of the first record with target's name and host, or 0
\* (the code's -1; sequences here start at 1).
indexOf(S, target) ==
    LET hit(i) == S[i].Name = target.Name /\ S[i].Host = target.Host
    IN  IF \E i \in 1..Len(S) : hit(i)
        THEN CHOOSE i \in 1..Len(S) : hit(i) /\ \A j \in 1..(i - 1) : ~hit(j)
        ELSE 0

\* A faulty Add that appends without looking the key up.
AddToAlwaysAppends(S, service, t) ==
    Append(S, Service(service.Name, service.Host, t))

\* A faulty Add that renews by dropping the old record and appending a new one.
AddToReappends(S, service, t) ==
    LET hit(s) == s.Name = service.Name /\ s.Host = service.Host
    IN  Append(SelectSeq(S, LAMBDA s : ~hit(s)),
               Service(service.Name, service.Host, t))

\* A faulty Add that keeps the time the caller supplied.
AddToClientTime(S, service, t) ==
    LET idx == indexOf(S, service)
    IN  IF idx > 0
        THEN [S EXCEPT ![idx].Added = service.Added]
        ELSE Append(S, Service(service.Name, service.Host, service.Added))

\* A faulty Add that takes a record no longer Active for gone and adds a
\* second one.
AddToBesideExpired(S, service, t) ==
    LET idx == indexOf(S, service)
    IN  IF idx > 0 /\ t - S[idx].Added < Timeout
        THEN [S EXCEPT ![idx].Added = t]
        ELSE Append(S, Service(service.Name, service.Host, t))

\* The body of Add between Lock and Unlock: renew in place or append.
AddTo(S, service, t) ==
    LET idx == indexOf(S, service)
    IN  IF idx > 0
        THEN [S EXCEPT ![idx].Added = t]
        ELSE Append(S, Service(service.Name, service.Host, t))

\* A faulty Remove that cuts out every record of the name.
RemoveFromByName(S, service) ==
    SelectSeq(S, LAMBDA s : s.Name # service.Name)

\* The body of Remove between Lock and Unlock: cut the record out.
RemoveFrom(S, service) ==
    LET idx == indexOf(S, service)
    IN  IF idx > 0
        THEN SubSeq(S, 1, idx - 1) \o SubSeq(S, idx + 1, Len(S))
        ELSE S

\* A faulty test that takes inactive records whether asked to or not.
SelectedAlsoInactive(s, name, inactive) ==
    /\ (name = "" \/ name = s.Name)
    /\ \/ Since(s.Added) < Timeout
       \/ (Since(s.Added) >= Timeout /\ Since(s.Added) < Keep)

\* A faulty test that does not compare the name.
SelectedAnyName(s, name, inactive) ==
    \/ Since(s.Added) < Timeout
    \/ (inactive /\ Since(s.Added) >= Timeout /\ Since(s.Added) < Keep)

\* getAll's test for appending a record to `services`.
Selected(s, name, inactive) ==
    /\ (name = "" \/ name = s.Name)
    /\ \/ Since(s.Added) < Timeout
       \/ (inactive /\ Since(s.Added) >= Timeout /\ Since(s.Added) < Keep)

\* getAll's test for appending a record to `stale`.
IsStale(s) == Since(s.Added) > Keep

ScanServices(S, name, inactive) ==
    SelectSeq(S, LAMBDA s : Selected(s, name, inactive))

\* A faulty scan that measures staleness against the other window.
ScanStaleByTimeout(S) ==
    SelectSeq(S, LAMBDA s : Since(s.Added) > Timeout)

ScanStale(S) == SelectSeq(S, IsStale)

\* ------------------------------------------------------------------ Init

InitStore ==
    /\ resp = NoResp
    /\ Services = <<>>
    /\ Timeout \in Durations
    /\ Keep \in Durations
    /\ now = 0
    /\ pc = [c \in Callers |-> "idle"]
    /\ call = [c \in Callers |-> NoCall]
    /\ services = [c \in Callers |-> <<>>]
    /\ stale = [c \in Callers |-> <<>>]
    /\ ret = [c \in Callers |-> NoRet]

\* --------------------------------------------------------------- actions

\* The clock advances.
Tick ==
    /\ now < MaxTime
    /\ now' = now + 1
    /\ UNCHANGED <<storeVars, callerVars, agentVars, progVars, resp>>

\* randomRegistry.Add(service): the `added` the caller supplies is overwritten.
Add(service) ==
    /\ Services' = AddTo(Services, service, now)
    /\ UNCHANGED <<Timeout, Keep, now, callerVars, agentVars, progVars, resp>>

\* randomRegistry.Remove(service)
Remove(service) ==
    /\ Services' = RemoveFrom(Services, service)
    /\ UNCHANGED <<Timeout, Keep, now, callerVars, agentVars, progVars, resp>>

\* A faulty SetTimeout that writes both windows.
SetTimeoutAlsoKeep(d) ==
    /\ Timeout' = d
    /\ Keep' = d
    /\ UNCHANGED <<Services, now, callerVars, agentVars, progVars, resp>>

\* randomRegistry.SetTimeout(timeout)
SetTimeout(d) ==
    /\ Timeout' = d
    /\ UNCHANGED <<Services, Keep, now, callerVars, agentVars, progVars, resp>>

\* A faulty SetKeep that also drops the records older than the new window.
SetKeepReaps(d) ==
    /\ Keep' = d
    /\ Services' = SelectSeq(Services, LAMBDA s : Since(s.Added) <= d)
    /\ UNCHANGED <<Timeout, now, callerVars, agentVars, progVars, resp>>

\* randomRegistry.SetKeep(keep)
SetKeep(d) ==
    /\ Keep' = d
    /\ UNCHANGED <<Services, Timeout, now, callerVars, agentVars, progVars, resp>>

\* A faulty scan that lists as stale only the old records of the name asked for.
GetAllScanStaleOfName(c, op, name, inactive) ==
    /\ pc[c] = "idle"
    /\ pc' = [pc EXCEPT ![c] = "remove"]
    /\ call' = [call EXCEPT ![c] = [op |-> op, name |-> name]]
    /\ services' = [services EXCEPT ![c] = ScanServices(Services, name, inactive)]
    /\ stale' = [stale EXCEPT ![c] =
                    SelectSeq(Services,
                              LAMBDA s : IsStale(s) /\ (name = "" \/ name = s.Name))]
    /\ UNCHANGED <<storeVars, now, ret, agentVars, progVars, resp>>

\* getAll(name, inactive) from its entry to r.mutex.Unlock(): the scan.
GetAllScan(c, op, name, inactive) ==
    /\ pc[c] = "idle"
    /\ pc' = [pc EXCEPT ![c] = "remove"]
    /\ call' = [call EXCEPT ![c] = [op |-> op, name |-> name]]
    /\ services' = [services EXCEPT ![c] = ScanServices(Services, name, inactive)]
    /\ stale' = [stale EXCEPT ![c] = ScanStale(Services)]
    /\ UNCHANGED <<storeVars, now, ret, agentVars, progVars, resp>>

\* randomRegistry.Get(name) up to the end of getAll's scan.
Get(c, name) == GetAllScan(c, "Get", name, FALSE)

\* randomRegistry.List(name) up to the end of getAll's scan.
List(c, name) == GetAllScan(c, "List", name, TRUE)

\* One turn of getAll's second loop: r.Remove(service), under its own Lock.
GetAllRemove(c) ==
    /\ pc[c] = "remove"
    /\ stale[c] # <<>>
    /\ Services' = RemoveFrom(Services, Head(stale[c]))
    /\ stale' = [stale EXCEPT ![c] = Tail(stale[c])]
    /\ UNCHANGED <<Timeout, Keep, now, pc, call, services, ret, agentVars, progVars, resp>>

\* A faulty Get that always hands out the first record of the list.
GetReturnFirst(c) ==
    /\ pc[c] = "remove"
    /\ stale[c] = <<>>
    /\ call[c].op = "Get"
    /\ IF Len(services[c]) = 0
       THEN ret' = [ret EXCEPT ![c] = [err |-> TRUE, list |-> <<>>]]
       ELSE ret' = [ret EXCEPT ![c] = [err |-> FALSE, list |-> <<services[c][1]>>]]
    /\ pc' = [pc EXCEPT ![c] = "ret"]
    /\ services' = [services EXCEPT ![c] = <<>>]
    /\ UNCHANGED <<storeVars, now, call, stale, agentVars, progVars, resp>>

\* Get after getAll returned: an error on an empty list, else a random pick.
GetReturn(c) ==
    /\ pc[c] = "remove"
    /\ stale[c] = <<>>
    /\ call[c].op = "Get"
    /\ IF Len(services[c]) = 0
       THEN ret' = [ret EXCEPT ![c] = [err |-> TRUE, list |-> <<>>]]
       ELSE \E i \in 1..Len(services[c]) :
                ret' = [ret EXCEPT ![c] = [err |-> FALSE, list |-> <<services[c][i]>>]]
    /\ pc' = [pc EXCEPT ![c] = "ret"]
    /\ services' = [services EXCEPT ![c] = <<>>]
    /\ UNCHANGED <<storeVars, now, call, stale, agentVars, progVars, resp>>

\* List after getAll returned: the list as it is.
ListReturn(c) ==
    /\ pc[c] = "remove"
    /\ stale[c] = <<>>
    /\ call[c].op = "List"
    /\ ret' = [ret EXCEPT ![c] = [err |-> FALSE, list |-> services[c]]]
    /\ pc' = [pc EXCEPT ![c] = "ret"]
    /\ services' = [services EXCEPT ![c] = <<>>]
    /\ UNCHANGED <<storeVars, now, call, stale, agentVars, progVars, resp>>

\* The caller has taken the result; it is free for its next call.
Finish(c) ==
    /\ pc[c] = "ret"
    /\ pc' = [pc EXCEPT ![c] = "idle"]
    /\ call' = [call EXCEPT ![c] = NoCall]
    /\ services' = [services EXCEPT ![c] = <<>>]
    /\ stale' = [stale EXCEPT ![c] = <<>>]
    /\ ret' = [ret EXCEPT ![c] = NoRet]
    /\ UNCHANGED <<storeVars, now, agentVars, progVars, resp>>

NextStore ==
    \/ Tick
    \/ \E k \in ServiceKeys, a \in {ZeroTime, MaxTime} :
           Add(Service(k.Name, k.Host, a))
    \/ \E k \in ServiceKeys : Remove(Service(k.Name, k.Host, ZeroTime))
    \/ \E d \in Durations : SetTimeout(d)
    \/ \E d \in Durations : SetKeep(d)
    \/ \E c \in Callers, n \in ServiceNames : Get(c, n)
    \/ \E c \in Callers, n \in QueryNames : List(c, n)
    \/ \E c \in Callers : GetAllRemove(c)
    \/ \E c \in Callers : GetReturn(c)
    \/ \E c \in Callers : ListReturn(c)
    \/ \E c \in Callers : Finish(c)

\* ------------------------------------------------ the registration agent
(***************************************************************************)
(* Part 2, the registration agent: RegistryClient, the version with        *)
(* setRunning/IsRunning (src/unnamed/part_005, lines 44-186), against a    *)
(* registry server whose register and deregister handlers call Add and     *)
(* Remove of the store above.  Every read or write of `running' is under   *)
(* the client's RWMutex and every channel operation is atomic, so each is  *)
(* one action; what lies between two of them in the code lies between two  *)
(* actions here.                                                           *)
(***************************************************************************)

\* make(chan bool, 1): the capacity of the shutdown channel.
ChanCap == 1

\* The doAuto goroutines that may exist at once.
Loops == {"l1", "l2"}

\* The goroutines calling Deregister.
Deregs == {"d1", "d2"}

\* client.service: NewRegistryClient sets Name and Host and leaves Added zero.
AgentService == Service("a", "h1", ZeroTime)

\* How a remote request ends: "ok" is a 200 response; "rejected" is another
\* status, the store untouched; "unreachable" is a transport error before the
\* server saw the request; "lost" is a transport error (the client's timeout)
\* after the server handled it.
RemoteOutcomes == {"ok", "rejected", "unreachable", "lost"}

\* The server handled the request: its handler reached registry.Add/Remove.
Handled(o) == o \in {"ok", "lost"}

\* What Register and Deregister return: nil on a 200 response, else an error.
ReturnsError(o) == o # "ok"

\* No direct Register() call has returned yet.
NoReg == [resp |-> "none", err |-> FALSE]

\* A stop request that never reaches the channel.
StopSignalNotSent(run, ch) == ch

\* A faulty stop request that queues behind the signal already pending.
StopSignalQueues(run, ch) ==
    IF run THEN ch + 1 ELSE ch

\* Deregister's `if client.IsRunning() { select { case shutdown <- true: default: } }':
\* the send is dropped when the channel is full.
StopSignal(run, ch) ==
    IF run /\ ch < ChanCap THEN ch + 1 ELSE ch

\* A deregister handler that answers without removing anything.
ServerDeregisterKeeps(S, service) == S

\* handleDeregister with a valid request: registry.Remove(service).
ServerDeregister(S, service) == RemoveFrom(S, service)

\* handleRegister with a valid request: registry.Add(service).
ServerRegister(S, service) == AddTo(S, service, now)

\* The history of the agent's record: "registered" once a register request
\* has taken effect, "removed" when a deregister request took effect after
\* that, "resurrected" when a register request took effect after a removal.
HistAfterRegister(h) ==
    IF h \in {"removed", "resurrected"} THEN "resurrected" ELSE "registered"

HistAfterDeregister(h) ==
    IF h = "none" THEN "none" ELSE "removed"

InitAgent ==
    /\ running = FALSE
    /\ shutdown = 0
    /\ lpc = [l \in Loops |-> "none"]
    /\ dpc = [d \in Deregs |-> "idle"]
    /\ drun = [d \in Deregs |-> FALSE]
    /\ dresp = [d \in Deregs |-> "none"]
    /\ derr = [d \in Deregs |-> FALSE]
    /\ dsaw = [d \in Deregs |-> FALSE]
    /\ hist = "none"
    /\ lerr = [l \in Loops |-> FALSE]
    /\ reg = NoReg

\* No client built and no call made yet.
NoLib ==
    [made |-> FALSE, kind |-> "none", host |-> "none", fn |-> "none",
     transport |-> "none", status |-> 0, body |-> "none", out |-> "none"]

\* The discovery-server command has not been started.
NoCmd ==
    [cert |-> "", key |-> "", user |-> "", pass |-> "", log |-> "",
     port |-> "none", end |-> "none"]

\* The goroutines that call the registry at the level of its lock.
Threads == {"t1", "t2"}

\* A goroutine that is in no call of the registry.
NoThread ==
    [op |-> "none", at |-> "idle", service |-> Service("", "", ZeroTime),
     name |-> "", d |-> 0, services |-> <<>>, stale |-> <<>>]

InitProg ==
    /\ lib = NoLib
    /\ cmd = NoCmd
    /\ mutex = "free"
    /\ thr = [t \in Threads |-> NoThread]

Init == InitStore /\ InitAgent /\ InitProg

\* Auto(interval): `if !client.IsRunning() { go client.doAuto(interval) }'.
Auto ==
    IF ~running
    THEN /\ \E l \in Loops :
                /\ lpc[l] = "none"
                /\ lpc' = [lpc EXCEPT ![l] = "start"]
         /\ UNCHANGED <<storeVars, now, callerVars, progVars, resp, reg, lerr, running, shutdown,
                        dpc, drun, dresp, derr, dsaw, hist>>
    ELSE UNCHANGED vars

\* doAuto's first statement: client.setRunning(true).
LoopStart(l) ==
    /\ lpc[l] = "start"
    /\ running' = TRUE
    /\ lpc' = [lpc EXCEPT ![l] = "select"]
    /\ UNCHANGED <<storeVars, now, callerVars, progVars, resp, reg, lerr, shutdown, dpc, drun, dresp, derr, dsaw, hist>>

\* doAuto's select: receive a stop signal if one is pending, else default.
LoopSelect(l) ==
    /\ lpc[l] = "select"
    /\ IF shutdown > 0
       THEN /\ shutdown' = shutdown - 1
            /\ lpc' = [lpc EXCEPT ![l] = "exit"]
       ELSE /\ shutdown' = shutdown
            /\ lpc' = [lpc EXCEPT ![l] = "register"]
    /\ UNCHANGED <<storeVars, now, callerVars, progVars, resp, reg, lerr, running, dpc, drun, dresp, derr, dsaw, hist>>

\* A faulty loop that gives up when its Register() returns an error.
LoopRegisterFatal(l) ==
    /\ lpc[l] = "register"
    /\ \E o \in RemoteOutcomes :
           /\ lerr' = [lerr EXCEPT ![l] = ReturnsError(o)]
           /\ lpc' = [lpc EXCEPT ![l] = IF ReturnsError(o) THEN "exit" ELSE "sleep"]
           /\ IF Handled(o)
              THEN /\ Services' = ServerRegister(Services, AgentService)
                   /\ hist' = HistAfterRegister(hist)
              ELSE UNCHANGED <<Services, hist>>
    /\ UNCHANGED <<Timeout, Keep, now, callerVars, progVars, resp, reg, running, shutdown,
                   dpc, drun, dresp, derr, dsaw>>

\* The default case's client.Register(): one remote request, its result
\* dropped (lerr remembers it for the record only; nothing reads it).
LoopRegister(l) ==
    /\ lpc[l] = "register"
    /\ \E o \in RemoteOutcomes :
           /\ lerr' = [lerr EXCEPT ![l] = ReturnsError(o)]
           /\ IF Handled(o)
              THEN /\ Services' = ServerRegister(Services, AgentService)
                   /\ hist' = HistAfterRegister(hist)
              ELSE UNCHANGED <<Services, hist>>
    /\ lpc' = [lpc EXCEPT ![l] = "sleep"]
    /\ UNCHANGED <<Timeout, Keep, now, callerVars, progVars, resp, reg, running, shutdown,
                   dpc, drun, dresp, derr, dsaw>>

\* A faulty loop that goes from its wait straight to the next Register().
LoopSleepToRegister(l) ==
    /\ lpc[l] = "sleep"
    /\ lpc' = [lpc EXCEPT ![l] = "register"]
    /\ UNCHANGED <<storeVars, now, callerVars, progVars, resp, reg, lerr, running, shutdown,
                   dpc, drun, dresp, derr, dsaw, hist>>

\* The default case's time.Sleep(interval) ends.
LoopSleep(l) ==
    /\ lpc[l] = "sleep"
    /\ lpc' = [lpc EXCEPT ![l] = "select"]
    /\ UNCHANGED <<storeVars, now, callerVars, progVars, resp, reg, lerr, running, shutdown,
                   dpc, drun, dresp, derr, dsaw, hist>>

\* A loop that takes its record back from the registry when it exits.
LoopExitDeregisters(l) ==
    /\ lpc[l] = "exit"
    /\ running' = FALSE
    /\ lpc' = [lpc EXCEPT ![l] = "none"]
    /\ lerr' = [lerr EXCEPT ![l] = FALSE]
    /\ Services' = ServerDeregister(Services, AgentService)
    /\ hist' = HistAfterDeregister(hist)
    /\ UNCHANGED <<Timeout, Keep, now, callerVars, progVars, resp, reg, shutdown, dpc, drun, dresp, derr, dsaw>>

\* After the receive: client.setRunning(false); return.
LoopExit(l) ==
    /\ lpc[l] = "exit"
    /\ running' = FALSE
    /\ lpc' = [lpc EXCEPT ![l] = "none"]
    /\ lerr' = [lerr EXCEPT ![l] = FALSE]
    /\ UNCHANGED <<storeVars, now, callerVars, progVars, resp, reg, shutdown, dpc, drun, dresp, derr, dsaw, hist>>

\* Deregister's client.IsRunning().
DeregCheck(d) ==
    /\ dpc[d] = "idle"
    /\ drun' = [drun EXCEPT ![d] = running]
    /\ dsaw' = [dsaw EXCEPT ![d] = \E l \in Loops : lpc[l] # "none"]
    /\ dpc' = [dpc EXCEPT ![d] = "send"]
    /\ UNCHANGED <<storeVars, now, callerVars, progVars, resp, reg, lerr, running, shutdown, lpc, dresp, derr, hist>>

\* Deregister's non-blocking send on the shutdown channel, if it saw Running.
DeregSend(d) ==
    /\ dpc[d] = "send"
    /\ shutdown' = StopSignal(drun[d], shutdown)
    /\ dpc' = [dpc EXCEPT ![d] = "request"]
    /\ UNCHANGED <<storeVars, now, callerVars, progVars, resp, reg, lerr, running, lpc, drun, dresp, derr, dsaw, hist>>

\* Deregister's remote request and its return value.
DeregRequest(d) ==
    /\ dpc[d] = "request"
    /\ \E o \in RemoteOutcomes :
           /\ dresp' = [dresp EXCEPT ![d] = o]
           /\ derr' = [derr EXCEPT ![d] = ReturnsError(o)]
           /\ IF Handled(o)
              THEN /\ Services' = ServerDeregister(Services, AgentService)
                   /\ hist' = HistAfterDeregister(hist)
              ELSE UNCHANGED <<Services, hist>>
    /\ dpc' = [dpc EXCEPT ![d] = "ret"]
    /\ UNCHANGED <<Timeout, Keep, now, callerVars, progVars, resp, reg, lerr, running, shutdown, lpc, drun, dsaw>>

\* The caller has taken Deregister's result.
DeregFinish(d) ==
    /\ dpc[d] = "ret"
    /\ dpc' = [dpc EXCEPT ![d] = "idle"]
    /\ drun' = [drun EXCEPT ![d] = FALSE]
    /\ dresp' = [dresp EXCEPT ![d] = "none"]
    /\ derr' = [derr EXCEPT ![d] = FALSE]
    /\ dsaw' = [dsaw EXCEPT ![d] = FALSE]
    /\ UNCHANGED <<storeVars, now, callerVars, progVars, resp, reg, lerr, running, shutdown, lpc, hist>>

\* A faulty Register() that also marks the agent as not running.
RegisterClearsRunning ==
    /\ \E o \in RemoteOutcomes :
           /\ reg' = [resp |-> o, err |-> ReturnsError(o)]
           /\ IF Handled(o)
              THEN /\ Services' = ServerRegister(Services, AgentService)
                   /\ hist' = HistAfterRegister(hist)
              ELSE UNCHANGED <<Services, hist>>
    /\ running' = FALSE
    /\ UNCHANGED <<Timeout, Keep, now, callerVars, progVars, resp, lerr, shutdown, lpc,
                   dpc, drun, dresp, derr, dsaw>>

\* Register() called by the user of the client: one remote register request
\* for client.service; nil is returned on a 200 response, else an error.
Register ==
    /\ \E o \in RemoteOutcomes :
           /\ reg' = [resp |-> o, err |-> ReturnsError(o)]
           /\ IF Handled(o)
              THEN /\ Services' = ServerRegister(Services, AgentService)
                   /\ hist' = HistAfterRegister(hist)
              ELSE UNCHANGED <<Services, hist>>
    /\ UNCHANGED <<Timeout, Keep, now, callerVars, progVars, resp, lerr, running, shutdown, lpc,
                   dpc, drun, dresp, derr, dsaw>>

\* A step of the doAuto goroutine l.
LoopStep(l) ==
    LoopStart(l) \/ LoopSelect(l) \/ LoopRegister(l) \/ LoopSleep(l) \/ LoopExit(l)

NextAgent ==
    \/ Auto
    \/ \E l \in Loops : LoopStart(l)
    \/ \E l \in Loops : LoopSelect(l)
    \/ \E l \in Loops : LoopRegister(l)
    \/ \E l \in Loops : LoopSleep(l)
    \/ \E l \in Loops : LoopExit(l)
    \/ \E d \in Deregs : DeregCheck(d)
    \/ \E d \in Deregs : DeregSend(d)
    \/ \E d \in Deregs : DeregRequest(d)
    \/ \E d \in Deregs : DeregFinish(d)

\* The agent with its user also calling Register() directly.
NextClient == NextAgent \/ Register

\* ------------------------------------------------------- the HTTP server
(***************************************************************************)
(* Part 3, the server: handleRegister, handleDeregister and handleDiscover *)
(* of src/server.go in front of the store of part 1.  A handler that       *)
(* rejects its request, and one that calls Add or Remove, is one action    *)
(* (it holds at most one lock, once); handleDiscover goes through the      *)
(* steps of Get.  `resp' is the response the server wrote last.            *)
(***************************************************************************)

\* r.Method of the requests a client may send.
Methods == {"GET", "POST", "DELETE"}

\* The value of a token header: the token the server's authenticator
\* accepts, or "" (the header is absent; any other value fares the same).
Tokens == {"good", ""}

\* The Authenticator the server was built with: it accepts one token.
authenticator(token) == token = "good"

\* r.Header of a request: the token in the header "Authentication", in the
\* header "Authorization", or in neither.
Headers ==
    { h \in [Authentication : Tokens, Authorization : Tokens] :
          h.Authentication = "" \/ h.Authorization = "" }

\* A request body: none at all, bytes that are not JSON, or a JSON object
\* whose absent fields decode to the zero value: one of the keys with either
\* `added' a client may send, an object without name, one without host.
NoBody == [kind |-> "none", Name |-> "", Host |-> "", Added |-> ZeroTime]
Garbage == [kind |-> "garbage", Name |-> "", Host |-> "", Added |-> ZeroTime]
JSONBodies ==
    { [kind |-> "json", Name |-> k.Name, Host |-> k.Host, Added |-> a] :
          k \in ServiceKeys, a \in {ZeroTime, MaxTime} }
      \cup { [kind |-> "json", Name |-> "", Host |-> "h1", Added |-> ZeroTime],
             [kind |-> "json", Name |-> "a", Host |-> "", Added |-> ZeroTime] }
Bodies == {NoBody, Garbage} \cup JSONBodies

\* The requests sent to /register and /deregister.
WriteRequests == [method : Methods, header : Headers, body : Bodies]

\* The requests sent to /discover.
DiscoverRequests == [method : Methods, header : Headers, name : QueryNames]

\* json.NewDecoder(r.Body).Decode(&service)
Decode(body) ==
    IF body.kind = "json"
    THEN [err |-> FALSE, service |-> Service(body.Name, body.Host, body.Added)]
    ELSE [err |-> TRUE, service |-> Service("", "", ZeroTime)]

\* `r.Body == nil || err != nil || service.Name == "" || service.Host == ""'
BadBody(body) ==
    \/ body.kind = "none"
    \/ Decode(body).err
    \/ Decode(body).service.Name = ""
    \/ Decode(body).service.Host = ""

\* A faulty order of checks: the token before the method.
WriteCodeTokenFirst(method, r) ==
    IF ~authenticator(r.header.Authentication) THEN 401
    ELSE IF r.method # method THEN 405
    ELSE IF BadBody(r.body) THEN 400
    ELSE 200

\* The status handleRegister (method "POST") and handleDeregister (method
\* "DELETE") answer with: the checks in the order of the code.
WriteCode(method, r) ==
    IF r.method # method THEN 405
    ELSE IF ~authenticator(r.header.Authentication) THEN 401
    ELSE IF BadBody(r.body) THEN 400
    ELSE 200

\* The status handleDiscover answers with before it calls registry.Get;
\* 0 when every check passed and it goes on to Get.
DiscoverCode(r) ==
    IF r.method # "GET" THEN 405
    ELSE IF ~authenticator(r.header.Authentication) THEN 401
    ELSE IF r.name = "" THEN 400
    ELSE 0

\* A faulty handler that answers 200 whatever Get returned.
GetCodeAlwaysOK(err) == 200

\* The status handleDiscover answers with after registry.Get returned.
GetCode(err) == IF err THEN 404 ELSE 200

\* A faulty register handler that stores a well-formed service before it
\* looks at the method and the token.
handleRegisterStoresFirst(r) ==
    /\ resp' = Response("register", WriteCode("POST", r))
    /\ IF ~BadBody(r.body)
       THEN Services' = ServerRegister(Services, Decode(r.body).service)
       ELSE Services' = Services
    /\ UNCHANGED <<Timeout, Keep, now, callerVars, agentVars, progVars>>

handleRegister(r) ==
    /\ resp' = Response("register", WriteCode("POST", r))
    /\ IF WriteCode("POST", r) = 200
       THEN Services' = ServerRegister(Services, Decode(r.body).service)
       ELSE Services' = Services
    /\ UNCHANGED <<Timeout, Keep, now, callerVars, agentVars, progVars>>

handleDeregister(r) ==
    /\ resp' = Response("deregister", WriteCode("DELETE", r))
    /\ IF WriteCode("DELETE", r) = 200
       THEN Services' = ServerDeregister(Services, Decode(r.body).service)
       ELSE Services' = Services
    /\ UNCHANGED <<Timeout, Keep, now, callerVars, agentVars, progVars>>

\* handleDiscover up to the end of the scan of registry.Get, or to its
\* answer when a check fails.
handleDiscover(c, r) ==
    IF DiscoverCode(r) # 0
    THEN /\ resp' = Response("discover", DiscoverCode(r))
         /\ UNCHANGED <<storeVars, now, callerVars, agentVars, progVars>>
    ELSE GetAllScan(c, "Discover", r.name, FALSE)

\* registry.Get returns to handleDiscover, which answers.
handleDiscoverReturn(c) ==
    /\ pc[c] = "remove"
    /\ stale[c] = <<>>
    /\ call[c].op = "Discover"
    /\ IF Len(services[c]) = 0
       THEN ret' = [ret EXCEPT ![c] = [err |-> TRUE, list |-> <<>>]]
       ELSE \E i \in 1..Len(services[c]) :
                ret' = [ret EXCEPT ![c] = [err |-> FALSE, list |-> <<services[c][i]>>]]
    /\ resp' = Response("discover", GetCode(ret'[c].err))
    /\ pc' = [pc EXCEPT ![c] = "ret"]
    /\ services' = [services EXCEPT ![c] = <<>>]
    /\ UNCHANGED <<storeVars, now, call, stale, agentVars, progVars>>

\* The status handleList answers with before it calls registry.List; 0
\* when both checks passed and it goes on to List.
ListCode(r) ==
    IF r.method # "GET" THEN 405
    ELSE IF ~authenticator(r.header.Authorization) THEN 401
    ELSE 0

\* The status handlePing answers with: it looks at the token only.
PingCode(r) ==
    IF ~authenticator(r.header.Authorization) THEN 401
    ELSE 200

\* handleList up to the end of the scan of registry.List, or to its answer
\* when a check fails.
handleList(c, r) ==
    IF ListCode(r) # 0
    THEN /\ resp' = Response("list", ListCode(r))
         /\ UNCHANGED <<storeVars, now, callerVars, agentVars, progVars>>
    ELSE GetAllScan(c, "HandleList", r.name, TRUE)

\* registry.List returns to handleList, which writes the list (json.Marshal
\* of a list of Service does not fail).
handleListReturn(c) ==
    /\ pc[c] = "remove"
    /\ stale[c] = <<>>
    /\ call[c].op = "HandleList"
    /\ ret' = [ret EXCEPT ![c] = [err |-> FALSE, list |-> services[c]]]
    /\ resp' = Response("list", 200)
    /\ pc' = [pc EXCEPT ![c] = "ret"]
    /\ services' = [services EXCEPT ![c] = <<>>]
    /\ UNCHANGED <<storeVars, now, call, stale, agentVars, progVars>>

handlePing(r) ==
    /\ resp' = Response("ping", PingCode(r))
    /\ UNCHANGED <<storeVars, now, callerVars, agentVars, progVars>>

\* The header the client library puts its token in: every call of Client and
\* RegistryClient does req.Header.Set("Authorization", client.token).
ClientHeader(token) == [Authentication |-> "", Authorization |-> token]

\* The requests the library builds: Register (POST) and Deregister (DELETE)
\* with the service as body, Discover and List (GET) with the name, Ping
\* (GET).
ClientWrite(method, token, body) ==
    [method |-> method, header |-> ClientHeader(token), body |-> body]

ClientQuery(token, name) ==
    [method |-> "GET", header |-> ClientHeader(token), name |-> name]

NextServer ==
    \/ Tick
    \/ \E r \in WriteRequests : handleRegister(r)
    \/ \E r \in WriteRequests : handleDeregister(r)
    \/ \E c \in Callers, r \in DiscoverRequests : handleDiscover(c, r)
    \/ \E c \in Callers : GetAllRemove(c)
    \/ \E c \in Callers : handleDiscoverReturn(c)
    \/ \E c \in Callers : Finish(c)

\* The handlers alone, at one instant.
NextHandlers ==
    \/ \E r \in WriteRequests : handleRegister(r)
    \/ \E r \in WriteRequests : handleDeregister(r)
    \/ \E c \in Callers, r \in DiscoverRequests : handleDiscover(c, r)
    \/ \E c \in Callers : handleDiscoverReturn(c)
    \/ \E c \in Callers : Finish(c)

\* All five endpoints, at one instant.
NextEndpoints ==
    \/ \E r \in WriteRequests : handleRegister(r)
    \/ \E r \in WriteRequests : handleDeregister(r)
    \/ \E c \in Callers, r \in DiscoverRequests : handleDiscover(c, r)
    \/ \E c \in Callers : handleDiscoverReturn(c)
    \/ \E c \in Callers, r \in DiscoverRequests : handleList(c, r)
    \/ \E c \in Callers : handleListReturn(c)
    \/ \E r \in DiscoverRequests : handlePing(r)
    \/ \E c \in Callers : Finish(c)

(***************************************************************************)
(* Part 4, the client library: Client of src/client.go and the request     *)
(* half of RegistryClient (src/unnamed/part_005, lines 70-91 and 118-186). *)
(* A call is a function of the client's host and of what the network and   *)
(* the server do with the request: whether client.Do delivers it, the      *)
(* status of the answer, and what the body of the answer is.  `lib' holds  *)
(* the client in hand (if a constructor returned one) and the last call    *)
(* with its outcome: "nil", "error", or "panic" when the call never        *)
(* returns.                                                                *)
(***************************************************************************)

\* The hosts a caller may give a constructor: one with a scheme, one
\* without.
Hosts == {"http://10.0.0.1:80", "10.0.0.1:80"}

\* url.Parse(host + "/" + path): getScheme finds no scheme in a string that
\* begins with a digit, and a first path segment with a colon in it is an
\* error ("first path segment in URL cannot contain colon"); the error is
\* dropped by every caller (`uri, _ := url.Parse(...)`) and uri is nil.
Parses(host) == host = "http://10.0.0.1:80"

Statuses == {200, 400, 401, 404, 405, 500}

\* What the network and the server do with one request.  Body "json" is a
\* body json.Decoder decodes into the value the call expects, "garbage" one
\* it does not, "unreadable" one whose read fails.
Worlds ==
    [transport : {"ok", "fail"}, status : Statuses,
     body : {"json", "garbage", "unreadable"}]

\* The statements every call begins with: url.Parse, http.NewRequest on
\* uri.String() (a nil uri: the goroutine panics), client.Do, and the
\* status check with ioutil.ReadAll and fmt.Errorf(string(body)).
\* Client.Ping is these statements and `return nil'.
ClientPing(host, w) ==
    IF ~Parses(host) THEN "panic"
    ELSE IF w.transport = "fail" THEN "error"
    ELSE IF w.status # 200 THEN "error"
    ELSE "nil"

\* RegistryClient.Ping: the same statements.
RegistryClientPing(host, w) ==
    IF ~Parses(host) THEN "panic"
    ELSE IF w.transport = "fail" THEN "error"
    ELSE IF w.status # 200 THEN "error"
    ELSE "nil"

\* A faulty Discover that does not look at the decoder's error.
ClientDiscoverUnchecked(host, w) ==
    IF ~Parses(host) THEN "panic"
    ELSE IF w.transport = "fail" THEN "error"
    ELSE IF w.status # 200 THEN "error"
    ELSE "nil"

\* Client.Discover(name): the error it returns.
ClientDiscover(host, w) ==
    IF ~Parses(host) THEN "panic"
    ELSE IF w.transport = "fail" THEN "error"
    ELSE IF w.status # 200 THEN "error"
    ELSE IF w.body # "json" THEN "error"
    ELSE "nil"

\* Client.List(name): the error it returns.
ClientList(host, w) ==
    IF ~Parses(host) THEN "panic"
    ELSE IF w.transport = "fail" THEN "error"
    ELSE IF w.status # 200 THEN "error"
    ELSE IF w.body # "json" THEN "error"
    ELSE "nil"

\* RegistryClient.Register(): the error it returns.  json.Marshal of a
\* Service does not fail.
RegistryClientRegister(host, w) ==
    IF ~Parses(host) THEN "panic"
    ELSE IF w.transport = "fail" THEN "error"
    ELSE IF w.status # 200 THEN "error"
    ELSE "nil"

\* RegistryClient.Deregister(): the error it returns.
RegistryClientDeregister(host, w) ==
    IF ~Parses(host) THEN "panic"
    ELSE IF w.transport = "fail" THEN "error"
    ELSE IF w.status # 200 THEN "error"
    ELSE "nil"

\* The record of a call fn on host in world w that ended with out.
LibCall(made, kind, host, fn, w, out) ==
    [made |-> made, kind |-> kind, host |-> host, fn |-> fn,
     transport |-> w.transport, status |-> w.status, body |-> w.body,
     out |-> out]

\* NewClient(host, token, timeout): Ping, and the client only if Ping
\* returned nil; an error of Ping is wrapped into a new error.
NewClient(host, w) ==
    /\ ~lib.made
    /\ lib.out # "panic"
    /\ LET err == ClientPing(host, w)
       IN  lib' = LibCall(err = "nil", "Client", host, "NewClient", w, err)
    /\ UNCHANGED <<storeVars, now, callerVars, agentVars, resp, cmd, lockVars>>

\* NewRegistryClient(name, host, targetHost, targetToken, timeout).
NewRegistryClient(host, w) ==
    /\ ~lib.made
    /\ lib.out # "panic"
    /\ LET err == RegistryClientPing(host, w)
       IN  lib' = LibCall(err = "nil", "RegistryClient", host,
                          "NewRegistryClient", w, err)
    /\ UNCHANGED <<storeVars, now, callerVars, agentVars, resp, cmd, lockVars>>

\* A call of Discover on the client in hand.
CallDiscover(w) ==
    /\ lib.made /\ lib.kind = "Client"
    /\ lib' = LibCall(TRUE, lib.kind, lib.host, "Discover", w,
                      ClientDiscover(lib.host, w))
    /\ UNCHANGED <<storeVars, now, callerVars, agentVars, resp, cmd, lockVars>>

\* A call of List on the client in hand.
CallList(w) ==
    /\ lib.made /\ lib.kind = "Client"
    /\ lib' = LibCall(TRUE, lib.kind, lib.host, "List", w,
                      ClientList(lib.host, w))
    /\ UNCHANGED <<storeVars, now, callerVars, agentVars, resp, cmd, lockVars>>

\* A call of Register on the registry client in hand.
CallRegister(w) ==
    /\ lib.made /\ lib.kind = "RegistryClient"
    /\ lib' = LibCall(TRUE, lib.kind, lib.host, "Register", w,
                      RegistryClientRegister(lib.host, w))
    /\ UNCHANGED <<storeVars, now, callerVars, agentVars, resp, cmd, lockVars>>

\* A call of Deregister on the registry client in hand.
CallDeregister(w) ==
    /\ lib.made /\ lib.kind = "RegistryClient"
    /\ lib' = LibCall(TRUE, lib.kind, lib.host, "Deregister", w,
                      RegistryClientDeregister(lib.host, w))
    /\ UNCHANGED <<storeVars, now, callerVars, agentVars, resp, cmd, lockVars>>

NextLibrary ==
    \/ \E host \in Hosts, w \in Worlds : NewClient(host, w)
    \/ \E host \in Hosts, w \in Worlds : NewRegistryClient(host, w)
    \/ \E w \in Worlds : CallDiscover(w)
    \/ \E w \in Worlds : CallList(w)
    \/ \E w \in Worlds : CallRegister(w)
    \/ \E w \in Worlds : CallDeregister(w)

(***************************************************************************)
(* Part 5, the discovery-server command: main of                           *)
(* src/cmd/discovery-server/main.go.  `cmd' holds the flags of the run and *)
(* how it ended: "exit1" (os.Exit(1) before any listener), "http" or "tls" *)
(* (the server is serving), "error" (the listener returned an error at     *)
(* once; main logs it and returns).                                        *)
(***************************************************************************)

\* The -cert, -key, -user, -pass and -log flags a run is started with, and
\* the state of the port it is given.
Flags ==
    [cert : {"", "cert.pem", "missing.pem"}, key : {"", "key.pem"},
     user : {"", "u"}, pass : {"", "p"},
     log : {"", "server.log", "/denied.log"},
     port : {"free", "inuse"}]

\* os.OpenFile(log, O_APPEND|O_WRONLY|O_CREATE, 0600) returns no error.
Opens(log) == log = "server.log"

\* tls.LoadX509KeyPair(certFile, keyFile) returns no error: both files are
\* there and hold a pair.
LoadsKeyPair(cert, key) == cert = "cert.pem" /\ key = "key.pem"

\* http.Server.ListenAndServe(): net.Listen, then Serve.
ListenAndServe(port) ==
    IF port = "inuse" THEN "error" ELSE "http"

\* http.Server.ListenAndServeTLS(certFile, keyFile): net.Listen, then
\* ServeTLS, which loads the key pair (the server has no TLSConfig of its
\* own) before it serves.
ListenAndServeTLS(port, cert, key) ==
    IF port = "inuse" THEN "error"
    ELSE IF ~LoadsKeyPair(cert, key) THEN "error"
    ELSE "tls"

\* How a run of main with flags f ends.
mainEnd(f) ==
    IF (f.cert # "" /\ f.key = "") \/ (f.cert = "" /\ f.key # "") THEN "exit1"
    ELSE IF (f.user # "" /\ f.pass = "") \/ (f.user = "" /\ f.pass # "")
         THEN "exit1"
    ELSE IF f.log # "" /\ ~Opens(f.log) THEN "exit1"
    ELSE IF f.cert # "" THEN ListenAndServe(f.port)
    ELSE ListenAndServeTLS(f.port, f.cert, f.key)

\* One run of the command.
main(f) ==
    /\ cmd = NoCmd
    /\ cmd' = [cert |-> f.cert, key |-> f.key, user |-> f.user,
               pass |-> f.pass, log |-> f.log, port |-> f.port,
               end |-> mainEnd(f)]
    /\ UNCHANGED <<storeVars, now, callerVars, agentVars, resp, lib, lockVars>>

NextCommand == \E f \in Flags : main(f)

SpecStore == Init /\ [][NextStore]_vars

\* The agent runs against a server with the windows NewRandomServer gives
\* its registry: the shorter one for Timeout, the longer one for Keep.
InitAgentRun == Init /\ Timeout = 1 /\ Keep = MaxDur

SpecAgent == InitAgentRun /\ [][NextAgent]_vars

\* The store of a server as NewRandomServer builds it, reconfigured later
\* through SetTimeout and SetKeep.
SpecConfigured == InitAgentRun /\ [][NextStore]_vars

\* The server as NewRandomServer builds it.
SpecServer == InitAgentRun /\ [][NextServer]_vars

\* The server's handlers with the clock standing still: what a handler
\* answers to a request does not depend on the time.
SpecHandlers == InitAgentRun /\ [][NextHandlers]_vars

SpecClient == InitAgentRun /\ [][NextClient]_vars

\* The server's five endpoints with the clock standing still.
SpecEndpoints == InitAgentRun /\ [][NextEndpoints]_vars

\* The client library against any network and server.
SpecLibrary == Init /\ [][NextLibrary]_vars

\* The discovery-server command under any flags.
SpecCommand == Init /\ [][NextCommand]_vars

\* A goroutine that can run does run, a sleep ends, and a remote request ends
\* (the client's timeout): every started doAuto and Deregister goes on.
\* Nobody is obliged to call Auto or Deregister.
FairSpecAgent ==
    /\ SpecAgent
    /\ \A l \in Loops : WF_vars(LoopStep(l))
    /\ \A d \in Deregs : WF_vars(DeregSend(d) \/ DeregRequest(d))

\* ------------------------------------------------------- claims, the store

\* The set of elements of a sequence.
Range(S) == { S[i] : i \in 1..Len(S) }

\* Where the records with key k sit in S.
Positions(S, k) == { i \in 1..Len(S) : S[i].Name = k.Name /\ S[i].Host = k.Host }

\* time.Since of a record, as the claims call it.
Age(s) == now - s.Added

\* C1: whatever Add, Remove, Get and List calls have run and however they
\* interleaved, the store holds at most one record per (name,host) key.
C1_NoDuplicateKeys ==
    \A i, j \in 1..Len(Services) :
        (Services[i].Name = Services[j].Name /\ Services[i].Host = Services[j].Host)
            => i = j

\* C1's case: a read is between its scan and its removals, and the key it is
\* about to remove has been added again by another caller in the meantime.
C1_Witness ==
    \E c \in Callers :
        /\ pc[c] = "remove"
        /\ stale[c] # <<>>
        /\ Len(Services) = Cardinality(ServiceKeys)
        /\ \E i \in 1..Len(Services) :
               /\ Services[i].Name = Head(stale[c]).Name
               /\ Services[i].Host = Head(stale[c]).Host
               /\ Services[i].Added > Head(stale[c]).Added

\* C2: Add is an upsert by (name,host).  A key that is absent is appended with
\* lastRenewed = now and the count grows by one; a key that is present keeps
\* its position and the count, and its lastRenewed becomes now, which is not
\* before its old value; nothing else changes and the key has one record.
C2_AddIsUpsert ==
    [][\A k \in ServiceKeys, a \in {ZeroTime, MaxTime} :
          Add(Service(k.Name, k.Host, a)) =>
              LET at == Positions(Services, k)
              IN  /\ Cardinality(Positions(Services', k)) = 1
                  /\ at = {} =>
                        /\ Len(Services') = Len(Services) + 1
                        /\ Services'[Len(Services')] = Service(k.Name, k.Host, now)
                        /\ \A i \in 1..Len(Services) : Services'[i] = Services[i]
                  /\ at # {} =>
                        /\ Len(Services') = Len(Services)
                        /\ \A i \in 1..Len(Services) :
                               IF i \in at
                               THEN /\ Services'[i] = Service(k.Name, k.Host, now)
                                    /\ Services'[i].Added >= Services[i].Added
                               ELSE Services'[i] = Services[i]
      ]_vars

\* C2's case: the first of two records is younger than the second, which only
\* a renewal in place brings about.
C2_Witness ==
    /\ Len(Services) = 2
    /\ Services[1].Added > Services[2].Added

\* C3: with activeWindow < retentionWindow, a scan leaves a record aged into
\* [activeWindow, retentionWindow) out of Get's list and takes it into List's,
\* and a record aged retentionWindow or more, exactly retentionWindow included,
\* is in neither list and is put on the list of records the call removes,
\* whatever name the call asks for.
C3_WindowTransition ==
    [][\A c \in Callers, n \in QueryNames :
          (Timeout < Keep /\ (Get(c, n) \/ List(c, n))) =>
              \A s \in Range(Services) :
                  /\ (Age(s) >= Timeout /\ Age(s) < Keep /\ (n = "" \/ n = s.Name)) =>
                        (s \in Range(services'[c]) <=> call'[c].op = "List")
                  /\ Age(s) >= Keep =>
                        /\ s \notin Range(services'[c])
                        /\ s \in Range(stale'[c])
      ]_vars

C6_ExpiryAtomicWithScan ==
    [][\A c \in Callers :
          (pc[c] = "remove" /\ stale[c] # <<>> /\ stale'[c] = stale[c]) =>
              UNCHANGED storeVars
      ]_vars

\* ------------------------------------------------------- claims, the agent

\* The doAuto goroutines that exist.
ActiveLoops == { l \in Loops : lpc[l] # "none" }

\* The agent's record is in the registry.
AgentRegistered == Positions(Services, AgentService) # {}

\* Every renewal loop has exited and IsRunning() is false.
AgentStopped == ActiveLoops = {} /\ ~running

\* C7: at most one renewal loop is active per agent at any time, however the
\* calls of Auto follow or overlap each other.
C7_SingleLoop == Cardinality(ActiveLoops) <= 1

\* C8: a Deregister call that begins after Auto has started a loop makes the
\* loop stop: once such a call has returned, eventually no loop is left and
\* IsRunning() is false.
C8_DeregisterStopsLoop ==
    \A d \in Deregs :
        (dpc[d] = "ret" /\ dsaw[d]) ~> AgentStopped

C10_StopSentWhateverTheRequest ==
    [][\A d \in Deregs :
          /\ (DeregSend(d) /\ drun[d]) => shutdown' = ChanCap
          /\ DeregRequest(d) =>
                 /\ derr'[d] <=> dresp'[d] \in {"rejected", "unreachable", "lost"}
                 /\ shutdown' = shutdown
          /\ dpc'[d] = "request" => dpc[d] \in {"send", "request"}
          /\ dpc'[d] = "ret" => dpc[d] \in {"request", "ret"}
      ]_vars

\* C10's case: a Deregister call that found the agent Running has returned an
\* error, and the stop signal it sent is pending.
C10_Witness ==
    \E d \in Deregs :
        /\ dpc[d] = "ret"
        /\ drun[d]
        /\ derr[d]
        /\ shutdown = ChanCap
        /\ ActiveLoops # {}

\* C11: the stop channel never holds more than one pending stop signal, and
\* Deregister never waits on it or on the loop: whatever the channel holds
\* and wherever the loops are, a call that is at its send can take that step
\* (the signal accepted or dropped) and a call that is at its remote request
\* can complete it and return.
C11_ChannelBoundedNoBlocking ==
    /\ shutdown \in 0..ChanCap
    /\ \A d \in Deregs :
           /\ dpc[d] = "send" => ENABLED DeregSend(d)
           /\ dpc[d] = "request" => ENABLED DeregRequest(d)

\* C11's case: two Deregister calls both found the agent Running, the loop
\* has not taken a signal since (it never reached its first select), one
\* signal is pending, so the other send was dropped, and a call has returned
\* while the loop is still there.
C11_Witness ==
    /\ \A d \in Deregs : drun[d] /\ dpc[d] \in {"request", "ret"}
    /\ \E d \in Deregs : dpc[d] = "ret"
    /\ shutdown = ChanCap
    /\ ActiveLoops # {}
    /\ \A l \in ActiveLoops : lpc[l] = "select" /\ ~lerr[l]
    /\ hist = "none"

\* ------------------------------------------- claims, the store (continued)

\* The records of S without the one whose key is k, in their order.
Without(S, k) == SelectSeq(S, LAMBDA s : ~(s.Name = k.Name /\ s.Host = k.Host))

\* C12: Remove(record) deletes the record with exactly that (name,host) if it
\* is there and does nothing if it is not; every other record keeps its key,
\* its timestamp and its place among the others, both windows stay, and a
\* second Remove of the key changes nothing more.
C12_RemoveExactKey ==
    [][\A k \in ServiceKeys :
          Remove(Service(k.Name, k.Host, ZeroTime)) =>
              /\ Services' = Without(Services, k)
              /\ Positions(Services, k) = {} => Services' = Services
              /\ Timeout' = Timeout /\ Keep' = Keep
              /\ RemoveFrom(Services', k) = Services'
      ]_vars

\* C12's case: a read has returned a record that was renewed at this very
\* instant, so no read can have found it stale; it is not in the store any
\* more, which only Remove does, and the other record is still there.
C12_Witness ==
    \E c \in Callers :
        /\ pc[c] = "ret"
        /\ Len(Services) = 1
        /\ \E s \in Range(ret[c].list) :
               /\ s.Added = now
               /\ Positions(Services, s) = {}
               /\ s.Name = Services[1].Name

\* C13: SetTimeout(d) replaces only activeWindow and SetKeep(d) only
\* retentionWindow, the records and the other window staying as they are; a
\* Get/List that starts afterwards classifies with the value then current:
\* Get's scan leaves out every record of age >= activeWindow, the scan of
\* either puts every record older than retentionWindow on its removal list,
\* each removal takes that key out of the store, and the call does not
\* return before the list is empty.
C13_SetWindows ==
    [][/\ \A d \in Durations :
             /\ SetTimeout(d) =>
                    Timeout' = d /\ Keep' = Keep /\ Services' = Services
             /\ SetKeep(d) =>
                    Keep' = d /\ Timeout' = Timeout /\ Services' = Services
       /\ \A c \in Callers, n \in QueryNames :
             (Get(c, n) \/ List(c, n)) =>
                 \A s \in Range(Services) :
                     /\ (call'[c].op = "Get" /\ Age(s) >= Timeout) =>
                            s \notin Range(services'[c])
                     /\ Age(s) > Keep => s \in Range(stale'[c])
       /\ \A c \in Callers :
             /\ GetAllRemove(c) => Positions(Services', Head(stale[c])) = {}
             /\ (GetReturn(c) \/ ListReturn(c)) => stale[c] = <<>>
      ]_vars

\* C13's case: the server began with the shorter Timeout; a Get has scanned,
\* at this instant (it lists a record renewed now), and lists with it a
\* record one tick old, which only the Timeout set since then makes Active.
C13_Witness ==
    \E c \in Callers :
        /\ pc[c] = "remove"
        /\ call[c].op = "Get"
        /\ Timeout = MaxDur
        /\ \E s, t \in Range(services[c]) :
               s.Added = now /\ t.Added = now - 1

C15_LazyExpiryOnly ==
    [][\A s \in Range(Services) :
          (IsStale(s) /\ Positions(Services', s) = {}) =>
              \/ \E c \in Callers :
                     /\ GetAllRemove(c)
                     /\ Head(stale[c]).Name = s.Name
                     /\ Head(stale[c]).Host = s.Host
              \/ Remove(Service(s.Name, s.Host, ZeroTime))
      ]_vars

\* C15's case: no read is in progress, the store holds a Stale record, and
\* the record appended before it was renewed at this instant: writers have
\* acted and the Stale record is still there.
C15_Witness ==
    /\ \A c \in Callers : pc[c] = "idle"
    /\ Len(Services) = 2
    /\ IsStale(Services[2])
    /\ Services[1].Added = now

\* ------------------------------------------ claims, the agent (continued)

\* C16: Register() makes one remote register request for the held record
\* and returns its outcome (an error unless the answer was 200); the store
\* changes by that one register of the agent's record or not at all; the
\* running state, the stop channel, the loops and the Deregister calls in
\* progress are as they were.
C16_RegisterOnlyRegisters ==
    [][Register =>
          /\ UNCHANGED <<running, shutdown, lpc, lerr, dpc, drun>>
          /\ reg'.resp \in RemoteOutcomes
          /\ reg'.err <=> reg'.resp # "ok"
          /\ \/ Services' = Services
             \/ /\ Services' = AddTo(Services, AgentService, now)
                /\ reg'.resp \in {"ok", "lost"}
          /\ reg'.resp = "ok" => Positions(Services', AgentService) # {}
      ]_vars

\* C16's case: a direct Register() has returned an error although its
\* request took effect; the agent is still running, its loop is still there
\* and the stop signal that was pending is still pending.
C16_Witness ==
    /\ reg.resp = "lost"
    /\ reg.err
    /\ AgentRegistered
    /\ running
    /\ shutdown = ChanCap
    /\ ActiveLoops # {}

\* C17: a Register() that fails inside the loop does not end the loop and
\* does not change the running state: after Register, failed or not, the
\* loop sleeps, after the sleep it is at its select, and with no stop signal
\* pending the select leads to Register again; the loop leaves only through
\* a select that received a signal.
C17_LoopSurvivesFailure ==
    [][\A l \in Loops :
          /\ LoopRegister(l) =>
                 /\ lpc'[l] = "sleep"
                 /\ running' = running
                 /\ shutdown' = shutdown
          /\ LoopSleep(l) => (lpc'[l] = "select" /\ running' = running)
          /\ (LoopSelect(l) /\ shutdown = 0) => lpc'[l] = "register"
          /\ (lpc[l] \in {"register", "sleep"} /\ lpc'[l] # lpc[l]) =>
                 lpc'[l] \in {"sleep", "select"}
          /\ (lpc[l] # "exit" /\ lpc'[l] = "exit") =>
                 (lpc[l] = "select" /\ shutdown > 0)
      ]_vars

\* C17's case: the loop's last Register() failed, no register request has
\* ever taken effect, and the loop is about to call Register again, the
\* agent still running.
C17_Witness ==
    \E l \in Loops :
        /\ lpc[l] = "register"
        /\ lerr[l]
        /\ hist = "none"
        /\ running
        /\ ActiveLoops = {l}

\* ------------------------------------------------------ claims, the server

\* The request of a client that has the method and the token right.
Accepted(method, body) ==
    [method |-> method,
     header |-> [Authentication |-> "good", Authorization |-> ""],
     body |-> body]

\* The bodies that decode to a record with a name and a host.
GoodBodies == { b \in Bodies : b.kind = "json" /\ b.Name # "" /\ b.Host # "" }

\* C18: the lastRenewed of a stored record is the server's clock at the Add
\* that created or last renewed it.  A register request that is accepted
\* leaves its key with lastRenewed = now, whatever `added' it carried, on
\* insert and on renewal alike, and no step puts any other time into the
\* store: a record that is new or changed after a step has lastRenewed = now.
C18_AddedIsServerClock ==
    [][/\ \A b \in GoodBodies :
             handleRegister(Accepted("POST", b)) =>
                 /\ resp'.code = 200
                 /\ Cardinality(Positions(Services', b)) = 1
                 /\ \A i \in Positions(Services', b) : Services'[i].Added = now
       /\ \A s \in Range(Services') : s \in Range(Services) \/ s.Added = now
      ]_vars

\* C18's case: the store holds a record whose lastRenewed is neither of the
\* times a client supplies but the time of the register request that the
\* server answered last, with 200.
C18_Witness ==
    /\ resp.handler = "register"
    /\ resp.code = 200
    /\ now \notin {ZeroTime, MaxTime}
    /\ \E s \in Range(Services) : s.Added = now
    /\ \E s \in Range(Services) : s.Added < now

\* C19: the register, deregister and discover handlers check in a fixed
\* order.  A wrong method is answered 405 whatever the token and the body;
\* with the right method a rejected token is answered 401 whatever the body
\* or the name; with both right a missing or undecodable body, an empty name
\* or an empty host (on discover: an empty name parameter) is answered 400;
\* and only a request that passes all three reaches the store.
C19_ChecksInOrder ==
    [][/\ \A r \in WriteRequests :
             /\ handleRegister(r) =>
                    /\ r.method # "POST" => resp'.code = 405
                    /\ (r.method = "POST" /\ r.header.Authentication # "good") =>
                           resp'.code = 401
                    /\ ( /\ r.method = "POST" /\ r.header.Authentication = "good"
                         /\ r.body \notin GoodBodies ) => resp'.code = 400
                    /\ ( /\ r.method = "POST" /\ r.header.Authentication = "good"
                         /\ r.body \in GoodBodies ) =>
                           /\ resp'.code = 200
                           /\ Positions(Services', r.body) # {}
             /\ handleDeregister(r) =>
                    /\ r.method # "DELETE" => resp'.code = 405
                    /\ (r.method = "DELETE" /\ r.header.Authentication # "good") =>
                           resp'.code = 401
                    /\ ( /\ r.method = "DELETE" /\ r.header.Authentication = "good"
                         /\ r.body \notin GoodBodies ) => resp'.code = 400
                    /\ ( /\ r.method = "DELETE" /\ r.header.Authentication = "good"
                         /\ r.body \in GoodBodies ) =>
                           /\ resp'.code = 200
                           /\ Positions(Services', r.body) = {}
       /\ \A c \in Callers, r \in DiscoverRequests :
             handleDiscover(c, r) =>
                 /\ r.method # "GET" => resp' = Response("discover", 405)
                 /\ (r.method = "GET" /\ r.header.Authentication # "good") =>
                        resp' = Response("discover", 401)
                 /\ ( /\ r.method = "GET" /\ r.header.Authentication = "good"
                      /\ r.name = "" ) => resp' = Response("discover", 400)
                 /\ ( /\ r.method = "GET" /\ r.header.Authentication = "good"
                      /\ r.name # "" ) => (resp' = resp /\ pc'[c] = "remove")
      ]_vars

\* C19's case: the server has answered 401 to a deregister request while the
\* store holds both records, which the request has left there.
C19_Witness ==
    /\ resp = Response("deregister", 401)
    /\ Len(Services) = Cardinality(ServiceKeys)

\* C20: an authorized GET /discover with a non-empty name is answered 404
\* exactly when Get(name) returns NotFound, which it does exactly when its
\* scan listed nothing, and 200 with a record of that name otherwise.  In
\* the state a successful POST /register of (name,host) leaves, the store
\* has an Active record of the name, so a Get(name) succeeds; in the state a
\* successful DELETE /deregister of the only record of a name leaves, it has
\* no record of the name, so a Get(name) fails.
C20_DiscoverFollowsGet ==
    [][/\ \A c \in Callers :
             /\ handleDiscoverReturn(c) =>
                    /\ resp'.handler = "discover"
                    /\ resp'.code = 404 <=> ret'[c].err
                    /\ resp'.code = 200 <=> ~ret'[c].err
                    /\ ret'[c].err <=> services[c] = <<>>
                    /\ ~ret'[c].err =>
                           /\ ret'[c].list[1] \in Range(services[c])
                           /\ ret'[c].list[1].Name = call[c].name
             /\ (pc[c] = "idle" /\ pc'[c] = "remove") =>
                    Range(services'[c]) =
                        { s \in Range(Services) :
                              s.Name = call'[c].name /\ Age(s) < Timeout }
       /\ \A b \in GoodBodies :
             /\ handleRegister(Accepted("POST", b)) =>
                    /\ resp'.code = 200
                    /\ \E s \in Range(Services') :
                           s.Name = b.Name /\ now' - s.Added < Timeout'
             /\ ( /\ handleDeregister(Accepted("DELETE", b))
                  /\ \A s \in Range(Services) :
                         s.Name = b.Name => s.Host = b.Host ) =>
                    /\ resp'.code = 200
                    /\ \A s \in Range(Services') : s.Name # b.Name
      ]_vars

\* C20's case: discover has answered 404 for a name that has a record in the
\* store, registered earlier and not Active any more.
C20_Witness ==
    \E c \in Callers :
        /\ pc[c] = "ret"
        /\ call[c].op = "Discover"
        /\ resp.handler = "discover"
        /\ resp.code = 404
        /\ ret[c].err
        /\ \E s \in Range(Services) : s.Name = call[c].name

\* ------------------------------------------------ claims, the client library

\* The calls of the library that C21 names.
LibraryCalls == {"Discover", "List", "Register", "Deregister"}

\* The last call met a transport failure, a status other than 200 or, in
\* Discover and List, a body that does not decode.
CallFailed ==
    \/ lib.transport = "fail"
    \/ lib.status # 200
    \/ (lib.fn \in {"Discover", "List"} /\ lib.body # "json")

\* C21: every call of Discover, List, Register and Deregister returns to its
\* caller, with a non-nil error whenever the transport failed, the status was
\* not 200 or (Discover, List) the body did not decode, and with a nil error
\* only on a 200 answer that decodes.
C21_ErrorsReturned ==
    lib.fn \in LibraryCalls =>
        /\ lib.out \in {"nil", "error"}
        /\ CallFailed => lib.out = "error"
        /\ lib.out = "nil" => ~CallFailed

\* C21's case: Discover got a 200 answer whose body does not decode and
\* returned an error.
C21_Witness ==
    /\ lib.fn = "Discover"
    /\ lib.transport = "ok"
    /\ lib.status = 200
    /\ lib.body = "garbage"
    /\ lib.out = "error"

\* The ping of the last constructor call was not delivered, or was answered
\* with a status other than 200.
PingFailed ==
    \/ ~Parses(lib.host)
    \/ lib.transport = "fail"
    \/ lib.status # 200

\* C22: NewClient and NewRegistryClient ping the discovery service before
\* they return: when the ping cannot be delivered or is answered with a
\* status other than 200, the constructor returns an error and no client; it
\* returns a client only after a ping answered with 200.
C22_ConstructorPings ==
    lib.fn \in {"NewClient", "NewRegistryClient"} =>
        /\ PingFailed => (lib.out = "error" /\ ~lib.made)
        /\ lib.made => (~PingFailed /\ lib.out = "nil")

\* ------------------------------------------- claims, the server command

\* Nothing but the TLS flags decides how the run ends: user and password
\* come together, the log file opens and the port is free.
CmdCanServe ==
    /\ (cmd.user = "") = (cmd.pass = "")
    /\ (cmd.log = "" \/ Opens(cmd.log))
    /\ cmd.port = "free"

\* C23: the discovery-server command serves TLS with the given certificate
\* and key when both -cert and -key are supplied, serves plain HTTP when
\* neither is, and exits with status 1 without serving when exactly one of
\* the two is supplied.
C23_TLSFlags ==
    cmd # NoCmd =>
        /\ (CmdCanServe /\ LoadsKeyPair(cmd.cert, cmd.key)) => cmd.end = "tls"
        /\ (CmdCanServe /\ cmd.cert = "" /\ cmd.key = "") => cmd.end = "http"
        /\ ((cmd.cert = "") # (cmd.key = "")) => cmd.end = "exit1"

\* ------------------------------------------- claims, the store (continued)

C26_ResurrectedRecordStays ==
    [][/\ (AgentRegistered /\ ~AgentRegistered') =>
              \E d \in Deregs : DeregRequest(d) /\ Handled(dresp'[d])
       /\ (hist = "removed" /\ AgentRegistered') =>
              /\ \E l \in Loops : LoopRegister(l) /\ lpc[l] = "register"
              /\ hist' = "resurrected"
       /\ (hist = "resurrected" /\ hist' # "resurrected") =>
              \E d \in Deregs : DeregRequest(d)
      ]_vars

\* C26's case, the resurrection race run to its end: one Deregister call saw
\* the agent Running, had its request answered with 200 and returned nil,
\* the loop has exited and nothing of the agent is in flight, and the record
\* is at the registry, put there by a Register of the loop after the
\* removal.
C26_Witness ==
    /\ \E d \in Deregs :
           /\ dpc[d] = "ret" /\ drun[d] /\ dresp[d] = "ok" /\ ~derr[d]
           /\ \A e \in Deregs \ {d} : dpc[e] = "idle"
    /\ AgentStopped
    /\ shutdown = 0
    /\ hist = "resurrected"
    /\ AgentRegistered

\* ------------------------------------------ claims, the server (continued)

\* C27: with Timeout <= Keep, a read removes from the store only records
\* that are Stale (age >= Keep) when the removal takes effect, so a record
\* renewed by an Add in between is not deleted; and no step of a read
\* changes the Added of a record that stays, or either window.
C27_ReadsRemoveOnlyStale ==
    [][\A c \in Callers :
          ( /\ Timeout <= Keep
            /\ \/ GetAllRemove(c)
               \/ \E r \in DiscoverRequests : handleDiscover(c, r)
               \/ handleDiscoverReturn(c) ) =>
              /\ \A s \in Range(Services) :
                     s \notin Range(Services') => now - s.Added >= Keep
              /\ \A s \in Range(Services') : s \in Range(Services)
              /\ Timeout' = Timeout
              /\ Keep' = Keep
      ]_vars

\* ------------------------------------------- claims, the store (continued)

\* C28: whatever the two windows are, no record that a Get or List puts on
\* the list it returns is Stale (age >= Keep) at the scan, and no turn of the
\* call's removal loop deletes a record that is on that list.
C28_ReturnedNotStale ==
    [][\A c \in Callers :
          /\ (pc[c] = "idle" /\ pc'[c] = "remove") =>
                 \A s \in Range(services'[c]) : ~(now - s.Added >= Keep)
          /\ GetAllRemove(c) =>
                 \A s \in Range(services[c]) :
                     s \in Range(Services) => s \in Range(Services')
      ]_vars

\* Every record of the store that is older than Keep is on c's removal list.
StaleAllListed(c) ==
    \A s \in Range(Services) :
        now - s.Added > Keep =>
            \E t \in Range(stale[c]) : t.Name = s.Name /\ t.Host = s.Host

\* C29: stale removal is global.  The scan of a Get or List, whatever name it
\* is asked for, lists for removal every record older than Keep, of any name;
\* each turn of the removal loop deletes the record at the head of the list
\* and so keeps every old record of the store on the rest of the list; and a
\* call that returns with that still true (nothing ran in between) leaves no
\* record older than Keep in the store.
C29_StaleRemovalGlobal ==
    [][\A c \in Callers :
          /\ (pc[c] = "idle" /\ pc'[c] = "remove") =>
                 /\ Range(stale'[c]) =
                        { s \in Range(Services) : now - s.Added > Keep }
                 /\ StaleAllListed(c)'
          /\ (GetAllRemove(c) /\ StaleAllListed(c)) =>
                 /\ Positions(Services', Head(stale[c])) = {}
                 /\ StaleAllListed(c)'
          /\ ((GetReturn(c) \/ ListReturn(c)) /\ StaleAllListed(c)) =>
                 \A s \in Range(Services') : ~(now' - s.Added > Keep')
      ]_vars

\* C29's case: a Get for a name nobody registered is in its removal loop,
\* with a record of another name, older than Keep, next on its list.
C29_Witness ==
    \E c \in Callers :
        /\ pc[c] = "remove"
        /\ call[c].op = "Get"
        /\ call[c].name = "b"
        /\ stale[c] # <<>>
        /\ Head(stale[c]).Name = "a"
        /\ Head(stale[c]) \in Range(Services)
        /\ now - Head(stale[c]).Added > Keep

\* ------------------------------------------- claims, the agent (continued)

\* C30: the loop looks for a stop signal at the top of every iteration.  A
\* Register is started only by a check that found no signal, is followed by
\* the wait, and the wait by the next check; a check that finds a signal
\* takes it and leads to the exit, which sets running to false; and the
\* signal pending for a single running loop is taken by nobody else.  So
\* from the moment a signal is pending the loop does at most the Register
\* and the wait of the iteration it is in, and then it does exit.
C30_StopCheckedEachIteration ==
    /\ [][\A l \in Loops :
             /\ (lpc[l] # "register" /\ lpc'[l] = "register") =>
                    (LoopSelect(l) /\ shutdown = 0)
             /\ (lpc[l] = "register" /\ lpc'[l] # "register") =>
                    lpc'[l] = "sleep"
             /\ (lpc[l] = "sleep" /\ lpc'[l] # "sleep") =>
                    lpc'[l] = "select"
             /\ (lpc[l] = "select" /\ lpc'[l] # "select" /\ shutdown > 0) =>
                    (lpc'[l] = "exit" /\ shutdown' = shutdown - 1)
             /\ (lpc[l] = "exit" /\ lpc'[l] # "exit") =>
                    (lpc'[l] = "none" /\ ~running')
             /\ (ActiveLoops = {l} /\ shutdown' < shutdown) =>
                    (LoopSelect(l) /\ lpc'[l] = "exit")
         ]_vars
    /\ \A l \in Loops :
           (running /\ ActiveLoops = {l} /\ shutdown > 0)
               ~> (lpc[l] = "none")

\* C30's case: a stop signal is pending for the single running loop, which
\* is in the wait of its iteration, its Register done.
C30_Witness ==
    \E l \in Loops :
        /\ running
        /\ ActiveLoops = {l}
        /\ lpc[l] = "sleep"
        /\ shutdown = ChanCap
        /\ AgentRegistered

\* ------------------------------------------- claims, the agent (continued)

\* C31: IsRunning() agrees with the loop.  When it is false and no Auto is
\* still on its way (no goroutine that has not yet run its first statement),
\* no loop is left that will issue a Register; and while a loop is in its
\* iterations, before it has received a stop signal, it is true.
C31_IsRunningAgrees ==
    /\ (~running /\ \A l \in Loops : lpc[l] # "start") =>
           \A l \in Loops : lpc[l] \in {"none", "exit"}
    /\ \A l \in Loops : lpc[l] \in {"select", "register", "sleep"} => running

\* C32: whenever the agent is Idle (no loop, IsRunning() false) and no
\* Deregister call is under way, no stop signal is pending in the channel.
C32_IdleChannelEmpty ==
    (AgentStopped /\ \A d \in Deregs : dpc[d] \in {"idle", "ret"}) =>
        shutdown = 0

(***************************************************************************)
(* The agent's loop and the registry's clock together: doAuto renewing     *)
(* the record at a registry whose records age, read by Get.  The registry  *)
(* is built by NewRandomRegistry(timeout, keep) with any two windows (a    *)
(* server's are set through Server.SetTimeout and Server.SetKeep).         *)
(***************************************************************************)

\* The windows a registry may be built with, in ticks of the clock.
Windows == 1..MaxTime

InitRenewal ==
    /\ InitAgent
    /\ InitProg
    /\ resp = NoResp
    /\ Services = <<>>
    /\ Timeout \in Windows
    /\ Keep \in Windows
    /\ now = 0
    /\ pc = [c \in Callers |-> "idle"]
    /\ call = [c \in Callers |-> NoCall]
    /\ services = [c \in Callers |-> <<>>]
    /\ stale = [c \in Callers |-> <<>>]
    /\ ret = [c \in Callers |-> NoRet]

\* The loop's Register() against a reachable registry that answers 200.
LoopRegisterOK(l) == LoopRegister(l) /\ ~lerr'[l] /\ AgentRegistered'

\* Time passes, the loop keeping its period (the interval and the duration
\* of a Register) below Timeout: the time since the last Register took
\* effect, which is the age of the agent's record, stays below Timeout.
TickRenewed ==
    /\ Tick
    /\ \A i \in Positions(Services, AgentService) :
           now' - Services[i].Added < Timeout

NextRenewal ==
    \/ Auto
    \/ \E l \in Loops : LoopStart(l)
    \/ \E l \in Loops : LoopSelect(l)
    \/ \E l \in Loops : LoopRegisterOK(l)
    \/ \E l \in Loops : LoopSleep(l)
    \/ TickRenewed
    \/ \E c \in Callers, n \in ServiceNames : Get(c, n)
    \/ \E c \in Callers : GetAllRemove(c)
    \/ \E c \in Callers : GetReturn(c)
    \/ \E c \in Callers : Finish(c)

SpecRenewal == InitRenewal /\ [][NextRenewal]_vars

\* C33: while the loop renews the record with a period below Timeout, every
\* Register succeeding, and nobody deregisters or removes it, then from the
\* first Register on no Get for the agent's name finds its list empty
\* (NotFound) and no step removes the agent's record.
C33_RenewalKeepsDiscoverable ==
    [][/\ AgentRegistered => AgentRegistered'
       /\ \A c \in Callers :
              (Get(c, AgentService.Name) /\ hist # "none") =>
                  services'[c] # <<>>
      ]_vars

\* ------------------------------------------ claims, the server (continued)

\* C34: a rejected request does not touch the store.  A register or
\* deregister request answered 400, 401 or 405 leaves the records and the
\* windows as they were; the store changes only in a register or deregister
\* handler whose request has the right method, a token the authenticator
\* accepts and a body that decodes with a name and a host; and registry.Get
\* is entered by the discover handler only for a GET request with an
\* accepted token and a non-empty name, a rejected one leaving the store and
\* the reader where they were.
C34_RejectedLeavesStore ==
    [][/\ \A r \in WriteRequests :
              ( /\ handleRegister(r) \/ handleDeregister(r)
                /\ resp'.code \in {400, 401, 405} ) =>
                  UNCHANGED storeVars
       /\ (storeVars' # storeVars) =>
              \E r \in WriteRequests :
                  /\ authenticator(r.header.Authentication)
                  /\ ~BadBody(r.body)
                  /\ resp'.code = 200
                  /\ \/ (r.method = "POST" /\ handleRegister(r))
                     \/ (r.method = "DELETE" /\ handleDeregister(r))
       /\ \A c \in Callers :
              /\ (pc[c] = "idle" /\ pc'[c] = "remove") =>
                     \E r \in DiscoverRequests :
                         /\ r.method = "GET"
                         /\ authenticator(r.header.Authentication)
                         /\ r.name # ""
                         /\ handleDiscover(c, r)
              /\ \A r \in DiscoverRequests :
                     (handleDiscover(c, r) /\ DiscoverCode(r) # 0) =>
                         /\ resp'.code \in {400, 401, 405}
                         /\ UNCHANGED <<storeVars, callerVars>>
      ]_vars

\* C34's case: a deregister request for a record of the store, well formed
\* but without an accepted token, has been answered 401 and the record is
\* still there.
C34_Witness ==
    /\ resp = Response("deregister", 401)
    /\ Len(Services) = 2

\* C35: with an authenticator that accepts exactly the token "good", a
\* request that the client library builds with that token is not answered
\* 401 on any of the five endpoints, and one it builds with another token is
\* answered 401 on each of them.
C35_ClientTokenChecked ==
    [][/\ \A b \in GoodBodies :
              /\ handleRegister(ClientWrite("POST", "good", b)) =>
                     resp'.code # 401
              /\ handleDeregister(ClientWrite("DELETE", "good", b)) =>
                     resp'.code # 401
              /\ handleRegister(ClientWrite("POST", "", b)) =>
                     resp'.code = 401
              /\ handleDeregister(ClientWrite("DELETE", "", b)) =>
                     resp'.code = 401
       /\ \A n \in QueryNames :
              /\ handlePing(ClientQuery("good", n)) => resp'.code # 401
              /\ handlePing(ClientQuery("", n)) => resp'.code = 401
              /\ \A c \in Callers :
                     /\ (handleDiscover(c, ClientQuery("good", n)) /\ pc[c] = "idle") =>
                            (pc'[c] = "remove" \/ resp'.code # 401)
                     /\ (handleList(c, ClientQuery("good", n)) /\ pc[c] = "idle") =>
                            (pc'[c] = "remove" \/ resp'.code # 401)
                     /\ handleDiscover(c, ClientQuery("", n)) =>
                            (pc'[c] = pc[c] /\ resp'.code = 401)
                     /\ handleList(c, ClientQuery("", n)) =>
                            (pc'[c] = pc[c] /\ resp'.code = 401)
      ]_vars

\* ------------------------------------------- claims, the store (continued)

\* C36: an Add for a key whose record is in the store but Inactive or Stale
\* (age not below Timeout, or not below Keep) renews that record where it
\* is: no record is added, the others stay as they are, the record's
\* lastRenewed is now, and a scan of the store as Add leaves it lists the
\* record for a Get of its name and does not list it for removal.
C36_AddRevives ==
    [][\A k \in ServiceKeys, a \in {ZeroTime, MaxTime} :
          LET old == Positions(Services, k)
          IN  ( /\ Add(Service(k.Name, k.Host, a))
                /\ old # {}
                /\ \A i \in old : \/ now - Services[i].Added >= Timeout
                                  \/ now - Services[i].Added >= Keep ) =>
                  /\ Len(Services') = Len(Services)
                  /\ Positions(Services', k) = old
                  /\ \A j \in 1..Len(Services) :
                         j \notin old => Services'[j] = Services[j]
                  /\ \A i \in old :
                         /\ Services'[i].Added = now
                         /\ Services'[i] \in
                                Range(ScanServices(Services', k.Name, FALSE))
                         /\ Services'[i] \notin Range(ScanStale(Services'))
      ]_vars

\* C36's case: a record that a read in progress found older than Keep, and
\* has not removed yet, has been renewed where it was, ahead of the other
\* record of the store.
C36_Witness ==
    \E c \in Callers :
        /\ pc[c] = "remove"
        /\ Len(Services) = 2
        /\ Services[1].Added = now
        /\ \E t \in Range(stale[c]) :
               /\ t.Name = Services[1].Name
               /\ t.Host = Services[1].Host
               /\ t.Added < Services[1].Added

(***************************************************************************)
(* Part 6, the registry's lock: the operations of randomRegistry           *)
(* (src/discovery/randomregistry.go, lines 57-123) statement by statement  *)
(* around r.mutex.  A goroutine is at "lock" before r.mutex.Lock(), at     *)
(* "held" inside the critical section, at "loop" in getAll's second loop,  *)
(* at "rlock" and "rheld" before and inside the critical section of the    *)
(* r.Remove that loop calls, at "done" before it returns.  sync.Mutex is   *)
(* not reentrant: Lock waits while anybody, the caller included, holds it. *)
(***************************************************************************)

\* The calls a goroutine may begin: the operation and its argument.  The
\* durations set are the shortest, which make records stale soonest.
ThreadCalls ==
    { [NoThread EXCEPT !.op = "Add", !.at = "lock",
                       !.service = Service(k.Name, k.Host, ZeroTime)] : k \in ServiceKeys }
      \cup { [NoThread EXCEPT !.op = "Remove", !.at = "lock",
                              !.service = Service("a", "h1", ZeroTime)] }
      \cup { [NoThread EXCEPT !.op = o, !.at = "lock", !.d = 0] :
                 o \in {"SetTimeout", "SetKeep"} }
      \cup { [NoThread EXCEPT !.op = o, !.at = "lock", !.name = n] :
                 o \in {"Get", "List"}, n \in {"a"} }

\* A goroutine calls an operation of the registry.
Begin(t, c) ==
    /\ thr[t].at = "idle"
    /\ thr' = [thr EXCEPT ![t] = c]
    /\ UNCHANGED <<storeVars, now, callerVars, agentVars, resp, lib, cmd, mutex>>

\* r.mutex.Lock(), of the operation or of the Remove that getAll calls.
MutexLock(t) ==
    /\ thr[t].at \in {"lock", "rlock"}
    /\ mutex = "free"
    /\ mutex' = t
    /\ thr' = [thr EXCEPT ![t].at = IF thr[t].at = "lock" THEN "held" ELSE "rheld"]
    /\ UNCHANGED <<storeVars, now, callerVars, agentVars, resp, lib, cmd>>

\* A faulty getAll that runs its removal loop before it unlocks.
CriticalKeepsLock(t) ==
    /\ thr[t].at = "held"
    /\ thr[t].op \in {"Get", "List"}
    /\ thr' = [thr EXCEPT ![t].at = "loop", ![t].stale = ScanStale(Services)]
    /\ UNCHANGED <<storeVars, now, callerVars, agentVars, resp, lib, cmd, mutex>>

\* The critical section of getAll, the scan, and its r.mutex.Unlock().
Critical(t) ==
    /\ thr[t].at = "held"
    /\ thr[t].op \in {"Get", "List"}
    /\ mutex' = "free"
    /\ thr' = [thr EXCEPT ![t].at = "loop", ![t].stale = ScanStale(Services)]
    /\ UNCHANGED <<storeVars, now, callerVars, agentVars, resp, lib, cmd>>

\* The critical section of Add, Remove, SetTimeout or SetKeep and its
\* r.mutex.Unlock().
CriticalWrite(t) ==
    /\ thr[t].at = "held"
    /\ thr[t].op \in {"Add", "Remove", "SetTimeout", "SetKeep"}
    /\ Services' = IF thr[t].op = "Add" THEN AddTo(Services, thr[t].service, now)
                   ELSE IF thr[t].op = "Remove" THEN RemoveFrom(Services, thr[t].service)
                   ELSE Services
    /\ Timeout' = IF thr[t].op = "SetTimeout" THEN thr[t].d ELSE Timeout
    /\ Keep' = IF thr[t].op = "SetKeep" THEN thr[t].d ELSE Keep
    /\ mutex' = "free"
    /\ thr' = [thr EXCEPT ![t].at = "done"]
    /\ UNCHANGED <<now, callerVars, agentVars, resp, lib, cmd>>

\* getAll's `for _, service := range stale': the next r.Remove(service).
GetAllNext(t) ==
    /\ thr[t].at = "loop"
    /\ thr[t].stale # <<>>
    /\ thr' = [thr EXCEPT ![t].at = "rlock"]
    /\ UNCHANGED <<storeVars, now, callerVars, agentVars, resp, lib, cmd, mutex>>

\* The critical section of the r.Remove that getAll called, and its Unlock.
CriticalRemove(t) ==
    /\ thr[t].at = "rheld"
    /\ Services' = RemoveFrom(Services, Head(thr[t].stale))
    /\ mutex' = "free"
    /\ thr' = [thr EXCEPT ![t].at = "loop", ![t].stale = Tail(thr[t].stale)]
    /\ UNCHANGED <<Timeout, Keep, now, callerVars, agentVars, resp, lib, cmd>>

\* The operation returns: after the Unlock of a write, or at the end of
\* getAll's loop (Get and List then return without touching the registry).
Return(t) ==
    /\ \/ thr[t].at = "done"
       \/ (thr[t].at = "loop" /\ thr[t].stale = <<>>)
    /\ thr' = [thr EXCEPT ![t] = NoThread]
    /\ UNCHANGED <<storeVars, now, callerVars, agentVars, resp, lib, cmd, mutex>>

\* One step of goroutine t inside a call.
ThreadStep(t) ==
    \/ MutexLock(t)
    \/ Critical(t)
    \/ CriticalWrite(t)
    \/ GetAllNext(t)
    \/ CriticalRemove(t)
    \/ Return(t)

NextLocks ==
    \/ Tick
    \/ \E t \in Threads, c \in ThreadCalls : Begin(t, c)
    \/ \E t \in Threads : MutexLock(t)
    \/ \E t \in Threads : Critical(t)
    \/ \E t \in Threads : CriticalWrite(t)
    \/ \E t \in Threads : GetAllNext(t)
    \/ \E t \in Threads : CriticalRemove(t)
    \/ \E t \in Threads : Return(t)

\* A goroutine inside a call goes on, and one that waits for the mutex gets
\* it when it is free again and again (sync.Mutex hands the lock to a waiter
\* that has waited long).  Nobody is obliged to begin a call.
FairSpecLocks ==
    /\ InitAgentRun
    /\ [][NextLocks]_vars
    /\ \A t \in Threads : SF_vars(ThreadStep(t))

\* C37: the store does not deadlock: no goroutine asks for the store lock
\* while it holds it, no goroutine holds the lock when its operation has
\* released it or returned, and every operation that was started completes.
C37_NoDeadlock ==
    /\ [](\A t \in Threads :
             /\ thr[t].at \in {"lock", "rlock"} => mutex # t
             /\ thr[t].at \in {"idle", "loop", "done"} => mutex # t)
    /\ \A t \in Threads : (thr[t].at # "idle") ~> (thr[t].at = "idle")

\* A goroutine's getAll waits for the lock of its r.Remove while another
\* goroutine holds the lock.
C37_Witness ==
    \E t, u \in Threads :
        /\ t # u
        /\ thr[t].at = "rlock"
        /\ mutex = u
        /\ thr[u].at \in {"held", "rheld"}

====
